---- MODULE Spec2Model ----
(***************************************************************************)
(* Model of the AI_Chatroom repository.                                    *)
(*                                                                         *)
(* Server side (server.js): the process-wide availableModels record, the   *)
(* model discovery run started from the listen callback, and the two       *)
(* request handlers POST /api/chat and POST /api/analyze-image, each cut   *)
(* at its await points so that a request interleaves with discovery.       *)
(*                                                                         *)
(* Client side (analytics.js): the conversationStats record, its copy in   *)
(* localStorage and the tracking operations.                               *)
(*                                                                         *)
(* A model identifier is the sequence of the "-"-separated parts of its    *)
(* name ("gemini-1.5-pro" is <<"gemini", "1.5", "pro">>), so that          *)
(* name.includes(marker) is membership of the marker among the parts.      *)
(* The JavaScript values null and "" for a model are the empty sequence.   *)
(***************************************************************************)
EXTENDS Integers, Sequences, FiniteSets, TLC

\* ------------------------------------------------------------------ bounds

\* Cap on the number of distinct model identifiers the API key gives
\* access to.
MaxAvail == 2

\* Longest list of model names the listing call returns.
MaxList == 2

\* Caps on the counters of the analytics stats and on the clock.
MaxMessages == 4
MaxImages == 1
MaxClock == 3

\* Clock ticks per calendar day.
TicksPerDay == 2

\* ------------------------------------------------------- model identifiers

None == <<>>

Includes(modelName, marker) == \E i \in 1..Len(modelName) : modelName[i] = marker

visionModels ==
  << <<"gemini", "2.0", "vision">>,
     <<"gemini", "2.0", "pro", "vision">>,
     <<"gemini", "1.5", "pro", "vision">>,
     <<"gemini", "1.5", "vision">>,
     <<"gemini", "1.5", "flash", "vision">>,
     <<"gemini", "pro", "vision">>,
     <<"gemini", "vision">>,
     <<"gemini", "2.0", "flash">>,
     <<"gemini", "1.5", "pro">>,
     <<"gemini", "1.5", "flash">> >>

textModels ==
  << <<"gemini", "2.0", "pro">>,
     <<"gemini", "2.0", "flash">>,
     <<"gemini", "1.5", "pro">>,
     <<"gemini", "1.5", "flash">>,
     <<"gemini", "pro">> >>

allPotentialModels == visionModels \o textModels

\* The identifiers the upstream may serve to the configured API key; every
\* other candidate of the catalogue fails its liveness probe.
ServedPool ==
  { <<"gemini", "2.0", "vision">>,
    <<"gemini", "2.0", "pro", "vision">>,
    <<"gemini", "2.0", "flash">> }

ServedInputs == { S \in SUBSET ServedPool : Cardinality(S) <= MaxAvail }

\* The same with any candidate of the catalogue served.
CatalogueInputs ==
  { S \in SUBSET { allPotentialModels[i] : i \in 1..Len(allPotentialModels) } :
      Cardinality(S) <= MaxAvail }

\* Lists the listing call can return (the names of models.models).
ListInputs ==
  { <<>>,
    << <<"gemini", "1.5", "pro">>, <<"gemini", "2.0", "flash">> >>,
    << <<"gemini", "2.0", "flash">>, <<"gemini", "pro", "vision">> >>,
    << <<"gemini", "pro", "vision">>, <<"gemini", "2.0", "flash">> >>,
    << <<"gemini", "pro">> >> }

\* Identifiers built from every generation marker, capability tier and
\* the vision marker, and the non-empty lists of them a listing call can
\* return.
Generations == { <<>>, <<"1.0">>, <<"1.5">>, <<"2.0">> }
Tiers == { <<>>, <<"flash">>, <<"pro">>, <<"ultra">> }
MarkedNames ==
  { <<"gemini">> \o g \o t \o v :
      g \in Generations, t \in Tiers, v \in { <<>>, <<"vision">> } }
MarkedLists == UNION { [1..n -> MarkedNames] : n \in 1..MaxList }

\* ------------------------------------------------------------ model scorer

\* Variant: the tests for "2.0" and "1.5" carry each other's weight.
GenerationScoreSwapped(modelName) ==
  IF Includes(modelName, "2.0") THEN 100
  ELSE IF Includes(modelName, "1.5") THEN 200
  ELSE IF Includes(modelName, "1.0") THEN 50
  ELSE 10

GenerationScore(modelName) ==
  IF Includes(modelName, "2.0") THEN 200
  ELSE IF Includes(modelName, "1.5") THEN 100
  ELSE IF Includes(modelName, "1.0") THEN 50
  ELSE 10

TierScore(modelName) ==
  IF Includes(modelName, "pro") THEN 30
  ELSE IF Includes(modelName, "flash") THEN 20
  ELSE 0

VisionScore(modelName) ==
  IF Includes(modelName, "vision") THEN 100 ELSE 0

getModelScore(modelName) ==
  GenerationScore(modelName) + TierScore(modelName) + VisionScore(modelName)

\* Variant: a model of equal score counts as better.
isBetterModelOrEqual(newModel, currentModel) ==
  getModelScore(newModel) >= getModelScore(currentModel)

isBetterModel(newModel, currentModel) ==
  getModelScore(newModel) > getModelScore(currentModel)

\* Variant: the list is not sorted before its head is taken.
SortedHeadUnsorted(list) == list[1]

\* list.sort((a, b) => getModelScore(b) - getModelScore(a))[0] for a
\* non-empty list: the sort is stable, so the head is the first entry of
\* the list that has the maximal score.
SortedHead(list) ==
  LET best == CHOOSE i \in 1..Len(list) :
                /\ \A j \in 1..Len(list) :
                     getModelScore(list[j]) <= getModelScore(list[i])
                /\ \A j \in 1..(i - 1) :
                     getModelScore(list[j]) < getModelScore(list[i])
  IN list[best]

\* getModelScore and the sorted head as the second server file
\* (src/unnamed/part_001) defines them: other weights, and an "ultra" tier.
getModelScoreOther(modelName) ==
  (IF Includes(modelName, "2.0") THEN 100
   ELSE IF Includes(modelName, "1.5") THEN 50
   ELSE IF Includes(modelName, "1.0") THEN 10
   ELSE 0)
  + (IF Includes(modelName, "ultra") THEN 30
     ELSE IF Includes(modelName, "pro") THEN 20
     ELSE IF Includes(modelName, "flash") THEN 15
     ELSE 0)
  + (IF Includes(modelName, "vision") THEN 25 ELSE 0)

SortedHeadOther(list) ==
  LET best == CHOOSE i \in 1..Len(list) :
                /\ \A j \in 1..Len(list) :
                     getModelScoreOther(list[j]) <= getModelScoreOther(list[i])
                /\ \A j \in 1..(i - 1) :
                     getModelScoreOther(list[j]) < getModelScoreOther(list[i])
  IN list[best]

\* ------------------------------------------------------------------- state

VARIABLES
  availableModels,   \* server: {text, vision, allModels}
  dpc,               \* server: position of discoverAvailableModels
  idx,               \* server: index of the fallback loop in allPotentialModels
  discoverResult,    \* server: value returned by discoverAvailableModels
  served,            \* upstream: the identifiers the API key can use
  visionLog,         \* server: identifiers logged as supporting vision
  req,               \* server: the request being handled
  conversationStats, \* client: in-memory stats
  storage,           \* client: localStorage item 'conversationStats'
  now,               \* client: Date.now()
  lastCall           \* client: the analytics operation just run, and its end

serverVars == <<availableModels, dpc, idx, discoverResult, served, visionLog, req>>
clientVars == <<conversationStats, storage, now, lastCall>>
vars == <<availableModels, dpc, idx, discoverResult, served, visionLog, req,
          conversationStats, storage, now, lastCall>>

\* --------------------------------------------------------- model discovery

\* identifyAndCategorizeModels(modelsList), for a non-empty list: the
\* vision slot is rewritten only when the list has an identifier that
\* contains "vision"; the text slot is the head of the whole list sorted
\* by score.
identifyAndCategorizeModels(am, modelsList) ==
  LET IsVision(m) == Includes(m, "vision")
      explicitVisionModels == SelectSeq(modelsList, IsVision)
  IN [am EXCEPT
        !.vision = IF Len(explicitVisionModels) > 0
                   THEN SortedHead(explicitVisionModels)
                   ELSE @,
        !.text = SortedHead(modelsList)]

\* Variant: a name containing "vision" is kept out of the text slot.
UpdateSelectionsApart(am, modelName) ==
  LET isText == ~Includes(modelName, "vision")
      am1 == IF am.text = None /\ isText
             THEN [am EXCEPT !.text = modelName] ELSE am
      am2 == IF /\ am1.vision # None
                /\ Includes(modelName, "vision")
                /\ isBetterModel(modelName, am1.vision)
             THEN [am1 EXCEPT !.vision = modelName]
             ELSE am1
  IN IF isText /\ am2.text # None /\ isBetterModel(modelName, am2.text)
     THEN [am2 EXCEPT !.text = modelName]
     ELSE am2

\* The tail of one iteration of the fallback loop, after the vision slot
\* was considered: first text model, vision upgrade, text upgrade.
UpdateSelections(am, modelName) ==
  LET am1 == IF am.text = None THEN [am EXCEPT !.text = modelName] ELSE am
      am2 == IF /\ am1.vision # None
                /\ Includes(modelName, "vision")
                /\ isBetterModel(modelName, am1.vision)
             THEN [am1 EXCEPT !.vision = modelName]
             ELSE am1
  IN IF isBetterModel(modelName, am2.text)
     THEN [am2 EXCEPT !.text = modelName]
     ELSE am2

SetVisionIfNone(am, modelName) ==
  IF am.vision = None THEN [am EXCEPT !.vision = modelName] ELSE am

\* End of one iteration: next candidate, or the loop is over and
\* discoverAvailableModels returns whether anything was recorded.
NextCandidate(am) ==
  IF idx < Len(allPotentialModels)
  THEN /\ idx' = idx + 1
       /\ dpc' = "probe"
       /\ discoverResult' = discoverResult
  ELSE /\ idx' = idx
       /\ dpc' = "done"
       /\ discoverResult' = IF Len(am.allModels) > 0 THEN "true" ELSE "false"

\* app.listen callback -> testApiKey -> discoverAvailableModels, up to the
\* await of genAI.listModels().
StartDiscovery ==
  /\ dpc = "start"
  /\ dpc' = "listing"
  /\ UNCHANGED <<availableModels, idx, discoverResult, served, visionLog, req>>
  /\ UNCHANGED clientVars

\* Variant: after classifying a listed set, discovery goes on to probe.
ListModelsReturnsThenProbes(list) ==
  /\ dpc = "listing"
  /\ availableModels' =
       IF Len(list) > 0
       THEN identifyAndCategorizeModels(
              [availableModels EXCEPT !.allModels = list], list)
       ELSE availableModels
  /\ dpc' = "probe"
  /\ idx' = 1
  /\ UNCHANGED <<discoverResult, served, visionLog, req>>
  /\ UNCHANGED clientVars

\* listModels() resolved.  A non-empty list is classified and discovery
\* returns true; an empty one falls through to the probing loop.
ListModelsReturns(list) ==
  /\ dpc = "listing"
  /\ IF Len(list) > 0
     THEN /\ availableModels' =
               identifyAndCategorizeModels(
                 [availableModels EXCEPT !.allModels = list], list)
          /\ dpc' = "done"
          /\ discoverResult' = "true"
          /\ idx' = idx
     ELSE /\ dpc' = "probe"
          /\ idx' = 1
          /\ UNCHANGED <<availableModels, discoverResult>>
  /\ UNCHANGED <<served, visionLog, req>>
  /\ UNCHANGED clientVars

\* listModels() threw: caught, fall back to probing.
ListModelsFails ==
  /\ dpc = "listing"
  /\ dpc' = "probe"
  /\ idx' = 1
  /\ UNCHANGED <<availableModels, discoverResult, served, visionLog, req>>
  /\ UNCHANGED clientVars

\* Variant: the failure of one probe is not caught inside the loop and
\* ends discovery.
ProbeFailsAborts ==
  /\ dpc = "probe"
  /\ dpc' = "done"
  /\ discoverResult' = "false"
  /\ UNCHANGED <<availableModels, idx, served, visionLog, req>>
  /\ UNCHANGED clientVars

\* model.generateContent("Test") threw for candidate idx (the model is not
\* served, or the call failed): skipped.
ProbeFails ==
  /\ dpc = "probe"
  /\ NextCandidate(availableModels)
  /\ UNCHANGED <<availableModels, served, visionLog, req>>
  /\ UNCHANGED clientVars

\* Variant: the candidate is selected without being recorded in allModels.
ProbeSucceedsUnrecorded ==
  /\ dpc = "probe"
  /\ allPotentialModels[idx] \in served
  /\ LET modelName == allPotentialModels[idx]
     IN IF Includes(modelName, "vision")
        THEN LET am == UpdateSelections(
                         SetVisionIfNone(availableModels, modelName),
                         modelName)
             IN /\ availableModels' = am
                /\ NextCandidate(am)
        ELSE /\ availableModels' = availableModels
             /\ dpc' = "mmprobe"
             /\ UNCHANGED <<idx, discoverResult>>
  /\ UNCHANGED <<served, visionLog, req>>
  /\ UNCHANGED clientVars

\* The liveness probe of candidate idx answered.  A vision-named candidate
\* is selected at once; any other awaits the multimodal probe first.
ProbeSucceeds ==
  /\ dpc = "probe"
  /\ allPotentialModels[idx] \in served
  /\ LET modelName == allPotentialModels[idx]
         pushed == [availableModels EXCEPT
                      !.allModels = Append(@, modelName)]
     IN IF Includes(modelName, "vision")
        THEN LET am == UpdateSelections(SetVisionIfNone(pushed, modelName),
                                        modelName)
             IN /\ availableModels' = am
                /\ NextCandidate(am)
        ELSE /\ availableModels' = pushed
             /\ dpc' = "mmprobe"
             /\ UNCHANGED <<idx, discoverResult>>
  /\ UNCHANGED <<served, visionLog, req>>
  /\ UNCHANGED clientVars

\* The multimodal probe of candidate idx resolved (supportsImage) or threw.
MultimodalProbeReturns(supportsImage) ==
  /\ dpc = "mmprobe"
  /\ LET modelName == allPotentialModels[idx]
         am0 == IF supportsImage
                THEN SetVisionIfNone(availableModels, modelName)
                ELSE availableModels
         am == UpdateSelections(am0, modelName)
     IN /\ availableModels' = am
        /\ NextCandidate(am)
  /\ visionLog' = IF supportsImage
                  THEN visionLog \cup { allPotentialModels[idx] }
                  ELSE visionLog
  /\ UNCHANGED <<served, req>>
  /\ UNCHANGED clientVars

\* listModels() resolved with a non-empty list in the second server file:
\* the vision slot is the head of the sorted vision-named entries, the text
\* slot the head of the sorted other entries, and discovery returns true
\* when a slot is set.
ListModelsReturnsOther(list) ==
  /\ dpc = "listing"
  /\ Len(list) > 0
  /\ LET IsVision(m) == Includes(m, "vision")
         IsText(m) == ~Includes(m, "vision")
         visionList == SelectSeq(list, IsVision)
         textList == SelectSeq(list, IsText)
         am == [allModels |-> list,
                vision |-> IF Len(visionList) > 0
                           THEN SortedHeadOther(visionList)
                           ELSE availableModels.vision,
                text |-> IF Len(textList) > 0
                         THEN SortedHeadOther(textList)
                         ELSE availableModels.text]
     IN /\ availableModels' = am
        /\ discoverResult' = IF am.text = None /\ am.vision = None
                             THEN "false" ELSE "true"
  /\ dpc' = "done"
  /\ idx' = idx
  /\ UNCHANGED <<served, visionLog, req>>
  /\ UNCHANGED clientVars

Discovery ==
  \/ StartDiscovery
  \/ \E list \in ListInputs : ListModelsReturns(list)
  \/ ListModelsFails
  \/ ProbeFails
  \/ ProbeSucceeds
  \/ \E supportsImage \in BOOLEAN : MultimodalProbeReturns(supportsImage)

\* ---------------------------------------------------------------- requests

\* Request bodies.  messages is either not an array (missing, a string, an
\* object) or an array of entries; NullEntry is a null array element.
User(content) == [role |-> "user", content |-> content]
Assistant(content) == [role |-> "assistant", content |-> content]
NullEntry == [role |-> "<null>", content |-> ""]
NotArray == [isArray |-> FALSE, items |-> <<>>]
Array(items) == [isArray |-> TRUE, items |-> items]

MessagesInputs ==
  { NotArray,
    Array(<<>>),
    Array(<<User("hi")>>),
    Array(<<User("hi"), Assistant("hello")>>),
    Array(<<User("hi"), Assistant("hello"), User("more")>>),
    Array(<<NullEntry>>) }

RequestedModelInputs == { None, <<"gemini", "pro">> }

\* The uploaded part: absent, or a file with a mimetype <<type, subtype>>
\* that is or is not above the 5MB limit of multer.
NoFile == [present |-> FALSE, mimetype |-> <<"", "">>, tooLarge |-> FALSE]
File(mimetype, tooLarge) ==
  [present |-> TRUE, mimetype |-> mimetype, tooLarge |-> tooLarge]

FileInputs ==
  { NoFile,
    File(<<"image", "png">>, FALSE),
    File(<<"image", "png">>, TRUE),
    File(<<"text", "plain">>, FALSE),
    File(<<"text", "plain">>, TRUE) }

PromptInputs == { "", "describe" }
DefaultPrompt == "What's in this image?"

\* What an upstream call can do: resolve with a text, or throw an error
\* whose message contains a set of the substrings the handlers look for.
TextOutputs == { "answer", "", " " }

ErrorMessages ==
  (SUBSET { "API key not valid", "not found", "quota" }) \cup { {"blocked"} }

Resolved(text) == [ok |-> TRUE, text |-> text, message |-> {}]
Thrown(message) == [ok |-> FALSE, text |-> "", message |-> message]

UpstreamOutcomes ==
  { Resolved(t) : t \in TextOutputs } \cup { Thrown(m) : m \in ErrorMessages }

\* Variant: the test forgets trim(), so a whitespace-only text passes.
IsBlankWithoutTrim(text) == text = ""

\* !text || text.trim() === ''
IsBlank(text) == text \in { "", " " }

\* Variant: the filter accepts every mimetype.
IsImageMimetypeAcceptsAll(mimetype) == mimetype[1] \in { "image", "text" }

\* file.mimetype.startsWith("image/")
IsImageMimetype(mimetype) == mimetype[1] = "image"

\* Responses: res.json(...) and res.status(s).json(...).
Success(text, model) ==
  [status |-> 200, shape |-> "content", error |-> "", details |-> "",
   cause |-> {}, text |-> text, model |-> model]
\* cause is the upstream error message that details embeds, if it embeds one.
Failure(status, error, details, cause) ==
  [status |-> status, shape |-> "error", error |-> error, details |-> details,
   cause |-> cause, text |-> "", model |-> None]

NoRequest ==
  [kind |-> "none", pc |-> "idle",
   requestedModel |-> None, messages |-> NotArray,
   file |-> NoFile, prompt |-> "",
   modelName |-> None, calls |-> <<>>, results |-> <<>>, responses |-> <<>>]

\* Variant: the handler ends without sending the response.
RespondNothing(r, response) == [r EXCEPT !.pc = "done"]

Respond(r, response) ==
  [r EXCEPT !.pc = "done", !.responses = Append(@, response)]

\* An upstream call of request r settled with outcome.
Settled(r, outcome) == [r EXCEPT !.results = Append(@, outcome)]

\* A chat request arrives; the previous request, if any, has been answered.
NewChatRequest(requestedModel, messages) ==
  /\ req.pc \in { "idle", "done" }
  /\ req' = [NoRequest EXCEPT !.kind = "chat", !.pc = "handler",
                              !.requestedModel = requestedModel,
                              !.messages = messages]
  /\ UNCHANGED <<availableModels, dpc, idx, discoverResult, served, visionLog>>
  /\ UNCHANGED clientVars

\* An image-analysis request arrives and enters uploadMiddleware.
NewImageRequest(file, prompt) ==
  /\ req.pc \in { "idle", "done" }
  /\ req' = [NoRequest EXCEPT !.kind = "image", !.pc = "upload",
                              !.file = file, !.prompt = prompt]
  /\ UNCHANGED <<availableModels, dpc, idx, discoverResult, served, visionLog>>
  /\ UNCHANGED clientVars

\* Variant: the quota test comes before the not-found test.
ChatErrorStatusQuotaFirst(message) ==
  IF "API key not valid" \in message THEN 401
  ELSE IF "quota" \in message THEN 429
  ELSE IF "not found" \in message THEN 404
  ELSE 500

\* The status chosen by the catch block of /api/chat.
ChatErrorStatus(message) ==
  IF "API key not valid" \in message THEN 401
  ELSE IF "not found" \in message THEN 404
  ELSE IF "quota" \in message THEN 429
  ELSE 500

ChatErrorDetails(message) ==
  IF "API key not valid" \in message THEN "Invalid API key"
  ELSE IF "not found" \in message THEN "The requested model was not found"
  ELSE IF "quota" \in message THEN "API quota exceeded"
  ELSE "error.message"

ChatFailure(message) ==
  Failure(ChatErrorStatus(message),
          "An error occurred while processing your request",
          ChatErrorDetails(message),
          IF ChatErrorDetails(message) = "error.message" THEN message ELSE {})

\* if (!availableModels.text)
TextModelMissing(am) == am.text = None

\* Variant: the image handler tests the text slot.
VisionModelMissingTestsText(am) == am.text = None

\* if (!availableModels.vision)
VisionModelMissing(am) == am.vision = None

\* The loop over messages: every entry but the last goes to the history
\* with its role translated, the last one is the prompt if it is a user
\* message.
ChatHistory(items) ==
  [i \in 1..(Len(items) - 1) |->
     [role |-> IF items[i].role = "assistant" THEN "model" ELSE "user",
      text |-> items[i].content]]

ChatPrompt(items) ==
  IF Len(items) > 0 /\ items[Len(items)].role = "user"
  THEN items[Len(items)].content
  ELSE ""

UpstreamCall(model, op, history, prompt, parts) ==
  [model |-> model, op |-> op, history |-> history, prompt |-> prompt,
   parts |-> parts]

\* /api/chat from its first line to the await of chat.sendMessage(prompt).
ChatHandler ==
  /\ req.kind = "chat"
  /\ req.pc = "handler"
  /\ req' =
       IF ~req.messages.isArray
       THEN Respond(req, Failure(400, "Invalid messages format", "", {}))
       ELSE IF TextModelMissing(availableModels)
       THEN Respond(req, Failure(503, "No working text model available",
                                 "no working Gemini text models", {}))
       ELSE LET modelName == IF req.requestedModel # None
                             THEN req.requestedModel
                             ELSE availableModels.text
                items == req.messages.items
            IN IF \E i \in 1..Len(items) : items[i] = NullEntry
               THEN \* msg.role on null throws a TypeError inside the try
                    Respond([req EXCEPT !.modelName = modelName],
                            ChatFailure({}))
               ELSE [req EXCEPT
                       !.pc = "awaitChat",
                       !.modelName = modelName,
                       !.calls = Append(@,
                          UpstreamCall(modelName, "sendMessage",
                                       ChatHistory(items), ChatPrompt(items),
                                       <<"text">>))]
  /\ UNCHANGED <<availableModels, dpc, idx, discoverResult, served, visionLog>>
  /\ UNCHANGED clientVars

\* Variant: the handler stores the model it answered with in the text slot.
ChatReturnsStoresModel(outcome) ==
  /\ req.kind = "chat"
  /\ req.pc = "awaitChat"
  /\ req' = IF outcome.ok
            THEN Respond(Settled(req, outcome),
                         Success(outcome.text, req.modelName))
            ELSE Respond(Settled(req, outcome), ChatFailure(outcome.message))
  /\ availableModels' = [availableModels EXCEPT !.text = req.modelName]
  /\ UNCHANGED <<dpc, idx, discoverResult, served, visionLog>>
  /\ UNCHANGED clientVars

\* chat.sendMessage(prompt) resolved or threw.
ChatReturns(outcome) ==
  /\ req.kind = "chat"
  /\ req.pc = "awaitChat"
  /\ req' = IF outcome.ok
            THEN Respond(Settled(req, outcome),
                         Success(outcome.text, req.modelName))
            ELSE Respond(Settled(req, outcome), ChatFailure(outcome.message))
  /\ UNCHANGED <<availableModels, dpc, idx, discoverResult, served, visionLog>>
  /\ UNCHANGED clientVars

\* uploadMiddleware: multer's fileFilter, then its size limit, then next().
UploadMiddleware ==
  /\ req.kind = "image"
  /\ req.pc = "upload"
  /\ req' =
       IF req.file.present /\ ~IsImageMimetype(req.file.mimetype)
       THEN Respond(req, Failure(400, "File upload failed",
                                 "Only image files are allowed!", {}))
       ELSE IF req.file.present /\ req.file.tooLarge
       THEN Respond(req, Failure(400, "File too large",
                                 "Maximum file size is 5MB", {}))
       ELSE [req EXCEPT !.pc = "handler"]
  /\ UNCHANGED <<availableModels, dpc, idx, discoverResult, served, visionLog>>
  /\ UNCHANGED clientVars

\* The message of the error re-thrown by the inner catch of
\* /api/analyze-image, which becomes the details of the response.
ImageErrorDetails(message) ==
  IF "exceeds the maximum size" \in message THEN "Image size too large"
  ELSE IF "not supported" \in message \/ "invalid format" \in message
       THEN "Image format not supported"
  ELSE IF "blocked" \in message \/ "safety" \in message
       THEN "Content blocked by safety filters"
  ELSE IF "not found" \in message \/ "does not exist" \in message
       THEN "Model not found or does not support vision"
  ELSE IF "quota" \in message \/ "rate limit" \in message
       THEN "API quota or rate limit exceeded"
  ELSE IF "permission" \in message THEN "Permission denied"
  ELSE IF "invalid image" \in message THEN "Invalid image: apiError.message"
  ELSE "API error: apiError.message"

\* The status chosen by the outer catch of /api/analyze-image.
ImageErrorStatus(message) == 500

ImageFailure(message) ==
  Failure(ImageErrorStatus(message), "Image analysis failed",
          ImageErrorDetails(message),
          IF ImageErrorDetails(message) \in { "Invalid image: apiError.message",
                                             "API error: apiError.message" }
          THEN message ELSE {})

\* /api/analyze-image from its first line to the await of the first
\* model.generateContent([prompt, imagePart]).
ImageHandler ==
  /\ req.kind = "image"
  /\ req.pc = "handler"
  /\ req' =
       IF ~req.file.present
       THEN Respond(req, Failure(400, "No image uploaded", "", {}))
       ELSE IF VisionModelMissing(availableModels)
       THEN Respond(req, Failure(503, "No working vision model available",
                                 "no working Gemini vision models", {}))
       ELSE LET prompt == IF req.prompt # "" THEN req.prompt
                          ELSE DefaultPrompt
            IN [req EXCEPT
                  !.pc = "awaitImage1",
                  !.prompt = prompt,
                  !.modelName = availableModels.vision,
                  !.calls = Append(@,
                     UpstreamCall(availableModels.vision, "generateContent",
                                  <<>>, prompt, <<"text", "inlineData">>))]
  /\ UNCHANGED <<availableModels, dpc, idx, discoverResult, served, visionLog>>
  /\ UNCHANGED clientVars

\* The first generateContent resolved or threw.  A blank text starts the
\* second call with the parts swapped.
ImageFirstReturns(outcome) ==
  /\ req.kind = "image"
  /\ req.pc = "awaitImage1"
  /\ req' =
       IF ~outcome.ok
       THEN Respond(Settled(req, outcome), ImageFailure(outcome.message))
       ELSE IF IsBlank(outcome.text)
       THEN [Settled(req, outcome) EXCEPT
               !.pc = "awaitImage2",
               !.calls = Append(@,
                  UpstreamCall(req.modelName, "generateContent",
                               <<>>, req.prompt, <<"inlineData", "text">>))]
       ELSE Respond(Settled(req, outcome),
                    Success(outcome.text, availableModels.vision))
  /\ UNCHANGED <<availableModels, dpc, idx, discoverResult, served, visionLog>>
  /\ UNCHANGED clientVars

\* The second generateContent resolved or threw.  A blank text throws
\* 'Received empty response from API even after retry'.
ImageSecondReturns(outcome) ==
  /\ req.kind = "image"
  /\ req.pc = "awaitImage2"
  /\ req' =
       IF ~outcome.ok
       THEN Respond(Settled(req, outcome), ImageFailure(outcome.message))
       ELSE IF IsBlank(outcome.text)
       THEN Respond(Settled(req, outcome),
                    ImageFailure({"Received empty response"}))
       ELSE Respond(Settled(req, outcome),
                    Success(outcome.text, availableModels.vision))
  /\ UNCHANGED <<availableModels, dpc, idx, discoverResult, served, visionLog>>
  /\ UNCHANGED clientVars

Arrival ==
  \/ \E requestedModel \in RequestedModelInputs, messages \in MessagesInputs :
       NewChatRequest(requestedModel, messages)
  \/ \E file \in FileInputs, prompt \in PromptInputs :
       NewImageRequest(file, prompt)

Handling ==
  \/ ChatHandler
  \/ \E outcome \in UpstreamOutcomes : ChatReturns(outcome)
  \/ UploadMiddleware
  \/ ImageHandler
  \/ \E outcome \in UpstreamOutcomes : ImageFirstReturns(outcome)
  \/ \E outcome \in UpstreamOutcomes : ImageSecondReturns(outcome)

\* ------------------------------------------------------------------ server

\* ------------------------------------------------------------- analytics

\* Times are clock ticks.  A duration is kept in ticks, where the code
\* keeps seconds ((Date.now() - lastQuery) / 1000); an average is kept as
\* the exact fraction num / den.  lastQuery = 0 stands for null: both are
\* falsy in "if (conversationStats.lastQuery)".
Fraction(num, den) == [num |-> num, den |-> den]
SameFraction(f, g) == f.num * g.den = g.num * f.den

\* conversationStats as the module body of analytics.js, and resetStats,
\* set it.
DefaultStats ==
  [totalMessages |-> 0, userMessages |-> 0, aiMessages |-> 0,
   avgResponseTime |-> Fraction(0, 1), totalResponseTime |-> 0,
   messagesByDate |-> << >>,
   tokenUsage |-> [input |-> 0, output |-> 0, total |-> 0],
   imageCounts |-> 0,
   characterCounts |-> [user |-> 0, ai |-> 0],
   responseTimeHistory |-> << >>,
   lastQuery |-> 0]

\* localStorage.getItem('conversationStats'): nothing, a text that is not
\* JSON, or the JSON text of a value.
Absent == [kind |-> "absent", value |-> DefaultStats]
Corrupt == [kind |-> "corrupt", value |-> DefaultStats]

\* Values a stored JSON text can hold that are no stats record: null, and
\* an object without the fields of one ({}, or a record of another shape).
JsonNull == [foreign |-> "null"]
EmptyObject == [foreign |-> "object"]
IsStats(value) == "totalMessages" \in DOMAIN value

\* JSON.stringify(conversationStats) and JSON.parse(savedStats).
Stringify(stats) == [kind |-> "json", value |-> stats]
Parses(text) == text.kind = "json"
Parse(text) == text.value

\* Math.ceil(length * TOKENS_PER_CHAR), with TOKENS_PER_CHAR = 0.25.
CharsPerToken == 4
\* Variant: the estimate is rounded down.
EstimateTokensFloor(length) == length \div CharsPerToken

EstimateTokens(length) == (length + CharsPerToken - 1) \div CharsPerToken

\* new Date().toISOString().split('T')[0]
Today(t) == (t - 1) \div TicksPerDay

\* messagesByDate[today] is created on first use, then one of its two
\* counters is incremented.
BumpDate(byDate, day, who) ==
  LET old == IF day \in DOMAIN byDate THEN byDate[day]
             ELSE [user |-> 0, ai |-> 0]
      new == IF who = "user" THEN [old EXCEPT !.user = @ + 1]
             ELSE [old EXCEPT !.ai = @ + 1]
  IN [d \in (DOMAIN byDate) \cup { day } |->
        IF d = day THEN new ELSE byDate[d]]

\* Variant: the time of the query is not kept.
trackUserMessageForgetsQuery(stats, length, t) ==
  [stats EXCEPT
     !.userMessages = @ + 1,
     !.totalMessages = @ + 1,
     !.characterCounts.user = @ + length,
     !.tokenUsage.input = @ + EstimateTokens(length),
     !.tokenUsage.total = @ + EstimateTokens(length),
     !.messagesByDate = BumpDate(@, Today(t), "user")]

trackUserMessage(stats, length, t) ==
  [stats EXCEPT
     !.userMessages = @ + 1,
     !.totalMessages = @ + 1,
     !.characterCounts.user = @ + length,
     !.tokenUsage.input = @ + EstimateTokens(length),
     !.tokenUsage.total = @ + EstimateTokens(length),
     !.messagesByDate = BumpDate(@, Today(t), "user"),
     !.lastQuery = t]

trackImageUpload(stats) == [stats EXCEPT !.imageCounts = @ + 1]

\* Variant: the AI message is not added to the total.
CountAIMessageForgetsTotal(stats, length) ==
  [stats EXCEPT
     !.aiMessages = @ + 1,
     !.characterCounts.ai = @ + length]

\* The counters at the head of trackAIResponse.
CountAIMessage(stats, length) ==
  [stats EXCEPT
     !.aiMessages = @ + 1,
     !.totalMessages = @ + 1,
     !.characterCounts.ai = @ + length]

\* Variant: the average is taken over the AI messages.
RecordResponseTimePerMessage(stats, t) ==
  LET timed ==
        IF stats.lastQuery # 0
        THEN LET responseTime == t - stats.lastQuery
                 history == Append(stats.responseTimeHistory,
                                   [time |-> t, duration |-> responseTime])
                 total == stats.totalResponseTime + responseTime
             IN [stats EXCEPT
                   !.responseTimeHistory = history,
                   !.totalResponseTime = total,
                   !.avgResponseTime = Fraction(total, stats.aiMessages)]
        ELSE stats
  IN [timed EXCEPT !.lastQuery = 0]

\* The response-time block of trackAIResponse: a sample is appended if a
\* query is pending, the average recomputed, and lastQuery cleared.
RecordResponseTime(stats, t) ==
  LET timed ==
        IF stats.lastQuery # 0
        THEN LET responseTime == t - stats.lastQuery
                 history == Append(stats.responseTimeHistory,
                                   [time |-> t, duration |-> responseTime])
                 total == stats.totalResponseTime + responseTime
             IN [stats EXCEPT
                   !.responseTimeHistory = history,
                   !.totalResponseTime = total,
                   !.avgResponseTime = Fraction(total, Len(history))]
        ELSE stats
  IN [timed EXCEPT !.lastQuery = 0]

\* Variant: the pending query survives the response.
trackAIResponseKeepsQuery(stats, length, t) ==
  LET counted == CountAIMessage(stats, length)
      timed == RecordResponseTime(counted, t)
  IN [timed EXCEPT
        !.tokenUsage.output = @ + EstimateTokens(length),
        !.tokenUsage.total = @ + EstimateTokens(length),
        !.messagesByDate = BumpDate(@, Today(t), "ai"),
        !.lastQuery = stats.lastQuery]

trackAIResponse(stats, length, t) ==
  LET counted == CountAIMessage(stats, length)
      timed == RecordResponseTime(counted, t)
  IN [timed EXCEPT
        !.tokenUsage.output = @ + EstimateTokens(length),
        !.tokenUsage.total = @ + EstimateTokens(length),
        !.messagesByDate = BumpDate(@, Today(t), "ai")]

\* How an operation of the analytics module ended: it returned, it threw
\* a TypeError, or it handed a document to the browser as a download.
NoReport == [summary |-> << >>, daily |-> << >>, responseTimes |-> << >>]
Returned(op) == [op |-> op, kind |-> "returned", report |-> NoReport]
Threw(op) == [op |-> op, kind |-> "threw", report |-> NoReport]
Downloaded(op, report) == [op |-> op, kind |-> "download", report |-> report]
NoOperation == Returned("none")

\* Lengths of the tracked texts.
MessageLengths == { 0, 1, 5 }

\* Each tracking operation ends with saveStats().  On a value that is no
\* stats record the first access to a nested field (characterCounts.user,
\* characterCounts.ai), or to any field of null, throws a TypeError before
\* saveStats is reached; the value stays one that is no stats record.
\* Variant: a query that is still pending keeps its timestamp.
TrackUserMessageKeepsPending(length) ==
  /\ IF IsStats(conversationStats)
     THEN /\ conversationStats.totalMessages < MaxMessages
          /\ conversationStats' =
               [trackUserMessage(conversationStats, length, now) EXCEPT
                  !.lastQuery = IF conversationStats.lastQuery # 0
                                THEN conversationStats.lastQuery
                                ELSE now]
          /\ storage' = Stringify(conversationStats')
          /\ lastCall' = Returned("trackUserMessage")
     ELSE /\ UNCHANGED <<conversationStats, storage>>
          /\ lastCall' = Threw("trackUserMessage")
  /\ UNCHANGED now
  /\ UNCHANGED serverVars

TrackUserMessage(length) ==
  /\ IF IsStats(conversationStats)
     THEN /\ conversationStats.totalMessages < MaxMessages
          /\ conversationStats' =
               trackUserMessage(conversationStats, length, now)
          /\ storage' = Stringify(conversationStats')
          /\ lastCall' = Returned("trackUserMessage")
     ELSE /\ UNCHANGED <<conversationStats, storage>>
          /\ lastCall' = Threw("trackUserMessage")
  /\ UNCHANGED now
  /\ UNCHANGED serverVars

TrackAIResponse(length) ==
  /\ IF IsStats(conversationStats)
     THEN /\ conversationStats.totalMessages < MaxMessages
          /\ conversationStats' =
               trackAIResponse(conversationStats, length, now)
          /\ storage' = Stringify(conversationStats')
          /\ lastCall' = Returned("trackAIResponse")
     ELSE /\ UNCHANGED <<conversationStats, storage>>
          /\ lastCall' = Threw("trackAIResponse")
  /\ UNCHANGED now
  /\ UNCHANGED serverVars

\* Variant: the new count is not saved.
TrackImageUploadWithoutSave ==
  /\ IsStats(conversationStats)
  /\ conversationStats.imageCounts < MaxImages
  /\ conversationStats' = trackImageUpload(conversationStats)
  /\ lastCall' = Returned("trackImageUpload")
  /\ UNCHANGED <<storage, now>>
  /\ UNCHANGED serverVars

\* trackImageUpload only touches imageCounts: on null it throws, on an
\* object without the fields it saves the object and throws in updateUI if
\* the page has the element of the average response time.
TrackImageUpload ==
  /\ IF IsStats(conversationStats)
     THEN /\ conversationStats.imageCounts < MaxImages
          /\ conversationStats' = trackImageUpload(conversationStats)
          /\ storage' = Stringify(conversationStats')
          /\ lastCall' = Returned("trackImageUpload")
     ELSE IF conversationStats = JsonNull
     THEN /\ UNCHANGED <<conversationStats, storage>>
          /\ lastCall' = Threw("trackImageUpload")
     ELSE /\ UNCHANGED conversationStats
          /\ storage' = Stringify(conversationStats)
          /\ lastCall' \in { Returned("trackImageUpload"),
                             Threw("trackImageUpload") }
  /\ UNCHANGED now
  /\ UNCHANGED serverVars

ResetStats ==
  /\ conversationStats' = DefaultStats
  /\ storage' = Stringify(conversationStats')
  /\ lastCall' = Returned("resetStats")
  /\ UNCHANGED now
  /\ UNCHANGED serverVars

\* Number.prototype.toFixed(2) of a duration in seconds: hundredths,
\* rounded to the nearest.
ToFixed2(f) == (200 * f.num + f.den) \div (2 * f.den)

\* The keys of messagesByDate in the order of their dates.
SortedDays(days) ==
  CHOOSE order \in [1..Cardinality(days) -> days] :
    \A i, j \in 1..Cardinality(days) : i < j => order[i] < order[j]

Line(label, value) == [label |-> label, value |-> value]

\* Variant: analysed images are counted as messages.
SummaryLinesCountImages(stats) ==
  << Line("Total Messages", stats.totalMessages + stats.imageCounts),
     Line("User Messages", stats.userMessages),
     Line("AI Messages", stats.aiMessages),
     Line("Average Response Time (s)", ToFixed2(stats.avgResponseTime)),
     Line("Total Token Usage", stats.tokenUsage.total),
     Line("Input Tokens", stats.tokenUsage.input),
     Line("Output Tokens", stats.tokenUsage.output),
     Line("Images Analyzed", stats.imageCounts) >>

\* The "Summary Statistics" block of the CSV document.
SummaryLines(stats) ==
  << Line("Total Messages", stats.totalMessages),
     Line("User Messages", stats.userMessages),
     Line("AI Messages", stats.aiMessages),
     Line("Average Response Time (s)", ToFixed2(stats.avgResponseTime)),
     Line("Total Token Usage", stats.tokenUsage.total),
     Line("Input Tokens", stats.tokenUsage.input),
     Line("Output Tokens", stats.tokenUsage.output),
     Line("Images Analyzed", stats.imageCounts) >>

\* The CSV document exportAnalyticsData builds: the summary, one row per
\* day in date order, one row per response-time sample.
exportAnalyticsData(stats) ==
  LET days == SortedDays(DOMAIN stats.messagesByDate)
  IN [summary |-> SummaryLines(stats),
      daily |->
        [i \in 1..Len(days) |->
           LET counts == stats.messagesByDate[days[i]]
           IN [date |-> days[i], user |-> counts.user, ai |-> counts.ai,
               total |-> counts.user + counts.ai]],
      responseTimes |->
        [i \in 1..Len(stats.responseTimeHistory) |->
           LET item == stats.responseTimeHistory[i]
           IN [time |-> item.time,
               duration |-> ToFixed2(Fraction(item.duration, 1))]]]

\* The export button: the document is handed to the browser through a
\* temporary link; avgResponseTime.toFixed throws on a value that is no
\* stats record.
Export ==
  /\ lastCall' = IF IsStats(conversationStats)
                 THEN Downloaded("exportAnalyticsData",
                                 exportAnalyticsData(conversationStats))
                 ELSE Threw("exportAnalyticsData")
  /\ UNCHANGED <<conversationStats, storage, now>>
  /\ UNCHANGED serverVars

\* loadStats() on stats that the page load has just set to the defaults:
\* nothing stored leaves them, a text that parses replaces them, a text
\* that does not parse runs resetStats().
loadStats(text) ==
  IF text.kind = "absent"
  THEN [stats |-> DefaultStats, storage |-> text]
  ELSE IF Parses(text)
  THEN [stats |-> Parse(text), storage |-> text]
  ELSE [stats |-> DefaultStats, storage |-> Stringify(DefaultStats)]

\* The page is loaded again: the module body runs, then init().  After
\* loadStats, initCharts reads the stats if the page has the chart
\* canvases, and throws on a value that is no stats record.
Reload ==
  /\ conversationStats' = loadStats(storage).stats
  /\ storage' = loadStats(storage).storage
  /\ lastCall' \in IF IsStats(conversationStats')
                   THEN { Returned("init") }
                   ELSE { Returned("init"), Threw("init") }
  /\ UNCHANGED now
  /\ UNCHANGED serverVars

\* Date.now() advances.
Tick ==
  /\ now < MaxClock
  /\ now' = now + 1
  /\ UNCHANGED <<conversationStats, storage, lastCall>>
  /\ UNCHANGED serverVars

AnalyticsInit ==
  /\ availableModels = [text |-> None, vision |-> None, allModels |-> <<>>]
  /\ dpc = "start"
  /\ idx = 0
  /\ discoverResult = "pending"
  /\ served = {}
  /\ visionLog = {}
  /\ req = NoRequest
  /\ conversationStats = DefaultStats
  /\ storage \in { Absent, Corrupt }
  /\ now = 1
  /\ lastCall = NoOperation

AnalyticsNext ==
  \/ \E length \in MessageLengths : TrackUserMessage(length)
  \/ \E length \in MessageLengths : TrackAIResponse(length)
  \/ TrackImageUpload
  \/ ResetStats
  \/ Reload
  \/ Export
  \/ Tick

AnalyticsSpec == AnalyticsInit /\ [][AnalyticsNext]_vars

\* The same operations on a page whose storage may hold any text: none,
\* one that does not parse, the JSON text of null or of an object that is
\* no stats record, or a record the module saved.
StoredInputs ==
  { Absent, Corrupt, Stringify(JsonNull), Stringify(EmptyObject),
    Stringify(trackUserMessage(DefaultStats, 1, 1)) }

PageLoadInit ==
  /\ availableModels = [text |-> None, vision |-> None, allModels |-> <<>>]
  /\ dpc = "start"
  /\ idx = 0
  /\ discoverResult = "pending"
  /\ served = {}
  /\ visionLog = {}
  /\ req = NoRequest
  /\ conversationStats = DefaultStats
  /\ storage \in StoredInputs
  /\ now = 1
  /\ lastCall = NoOperation

PageLoadSpec == PageLoadInit /\ [][AnalyticsNext]_vars

\* A conversation in which every exchange succeeds: sendTextMessage
\* tracks the user's message, and when the reply has arrived tracks it.
SendTextMessage(length) ==
  /\ lastCall.op \in { "none", "trackAIResponse" }
  /\ TrackUserMessage(length)

ReceiveReply(length) ==
  /\ lastCall.op = "trackUserMessage"
  /\ TrackAIResponse(length)

ConversationNext ==
  \/ \E length \in MessageLengths : SendTextMessage(length)
  \/ \E length \in MessageLengths : ReceiveReply(length)
  \/ Tick

ConversationSpec == AnalyticsInit /\ [][ConversationNext]_vars

\* Two calls of sendTextMessage overlap: the send button stays enabled while
\* a reply is awaited, so the second message is tracked before the first
\* reply arrives; then the two replies arrive.
SendOverlapping(length) ==
  /\ conversationStats.aiMessages = 0
  /\ conversationStats.userMessages < 2
  /\ TrackUserMessage(length)

ReplyOverlapping(length) ==
  /\ conversationStats.userMessages = 2
  /\ conversationStats.aiMessages < 2
  /\ TrackAIResponse(length)

OverlapNext ==
  \/ \E length \in MessageLengths : SendOverlapping(length)
  \/ \E length \in MessageLengths : ReplyOverlapping(length)
  \/ Tick

OverlapSpec == AnalyticsInit /\ [][OverlapNext]_vars

\* ------------------------------------------------------------------ server

ServerInit ==
  /\ availableModels = [text |-> None, vision |-> None, allModels |-> <<>>]
  /\ dpc = "start"
  /\ idx = 0
  /\ discoverResult = "pending"
  /\ served \in ServedInputs
  /\ visionLog = {}
  /\ req = NoRequest

Init ==
  /\ ServerInit
  /\ conversationStats = DefaultStats
  /\ storage = Absent
  /\ now = 1
  /\ lastCall = NoOperation

Next ==
  \/ Discovery
  \/ Arrival
  \/ Handling

Spec == Init /\ [][Next]_vars

\* The event loop runs every continuation whose promise has settled, and
\* every upstream call returns or fails.
FairSpec == Spec /\ WF_vars(Handling) /\ WF_vars(Discovery)

\* Discovery alone, before any request, on a key that may use any
\* candidates of the catalogue; every upstream call of discovery returns
\* or fails.
DiscoveryInit ==
  /\ availableModels = [text |-> None, vision |-> None, allModels |-> <<>>]
  /\ dpc = "start"
  /\ idx = 0
  /\ discoverResult = "pending"
  /\ served \in CatalogueInputs
  /\ visionLog = {}
  /\ req = NoRequest
  /\ conversationStats = DefaultStats
  /\ storage = Absent
  /\ now = 1
  /\ lastCall = NoOperation

DiscoverySpec == DiscoveryInit /\ [][Discovery]_vars

DiscoveryFairSpec == DiscoverySpec /\ WF_vars(Discovery)

\* Discovery alone, on a key that can list its models: the listing call
\* returns any non-empty list of marked names.
ListingInit ==
  /\ availableModels = [text |-> None, vision |-> None, allModels |-> <<>>]
  /\ dpc = "start"
  /\ idx = 0
  /\ discoverResult = "pending"
  /\ served = {}
  /\ visionLog = {}
  /\ req = NoRequest
  /\ conversationStats = DefaultStats
  /\ storage = Absent
  /\ now = 1
  /\ lastCall = NoOperation

ListingNext ==
  \/ StartDiscovery
  \/ \E list \in MarkedLists : ListModelsReturns(list)

ListingSpec == ListingInit /\ [][ListingNext]_vars

\* The same for the second server file.
ListingNextOther ==
  \/ StartDiscovery
  \/ \E list \in MarkedLists : ListModelsReturnsOther(list)

ListingSpecOther == ListingInit /\ [][ListingNextOther]_vars

\* ------------------------------------------------------ request properties

Done == req.pc = "done"
InFlight == req.pc \notin { "idle", "done" }

\* C1: a chat request whose messages is an empty array is rejected with an
\* error response and never makes an upstream call.
C1_EmptyMessagesRejected ==
  (req.kind = "chat" /\ req.messages = Array(<<>>))
    => /\ req.calls = <<>>
       /\ Done => /\ Len(req.responses) = 1
                  /\ req.responses[1].shape = "error"

\* The slot a request depends on.
SlotOf(r, am) == IF r.kind = "chat" THEN am.text ELSE am.vision

\* The step in which the route handler of the request runs.
HandlerRuns == req.pc = "handler" /\ req'.pc # "handler" /\ req'.kind = req.kind

Answered503 ==
  /\ req'.pc = "done"
  /\ Len(req'.responses) = 1
  /\ req'.responses[1].status = 503

\* C2 as stated: whenever a handler runs while its slot is none, the request
\* is answered 503 and makes no upstream call.
C2_SlotNoneAlways503 ==
  [][(HandlerRuns /\ SlotOf(req, availableModels) = None)
       => (Answered503 /\ req'.calls = <<>>)]_vars

\* The body the handler validates before it looks at the slot.
WellFormed(r) ==
  IF r.kind = "chat" THEN r.messages.isArray ELSE r.file.present

\* C2: whenever a handler runs while its slot is none, the request makes no
\* upstream call, and if its body passes the handler's validation (messages
\* is an array; a file was uploaded) it is answered 503, also when the body
\* names a model.
C2_SlotNoneNoUpstream ==
  [][(HandlerRuns /\ SlotOf(req, availableModels) = None)
       => /\ req'.calls = <<>>
          /\ req'.pc = "done"
          /\ WellFormed(req) => Answered503]_vars

C2_Witness ==
  /\ req.kind = "chat"
  /\ Done
  /\ req.requestedModel # None
  /\ req.messages.isArray
  /\ req.responses[1].status = 503
  /\ req.calls = <<>>

\* The upstream call of a chat request failed.
ChatUpstreamFailed ==
  /\ req.kind = "chat"
  /\ Len(req.results) = 1
  /\ ~req.results[1].ok

\* C3: a chat request whose upstream call fails gets exactly one error
\* response, with status 401 for invalid credentials, else 404 for
\* model-not-found, else 429 for quota-exceeded, else 500.
C3_ChatStatusByKind ==
  ChatUpstreamFailed =>
    LET m == req.results[1].message
        credentials == "API key not valid" \in m
        notFound == "not found" \in m
        quota == "quota" \in m
    IN /\ Done
       /\ Len(req.responses) = 1
       /\ req.responses[1].shape = "error"
       /\ credentials => req.responses[1].status = 401
       /\ (~credentials /\ notFound) => req.responses[1].status = 404
       /\ (~credentials /\ ~notFound /\ quota) => req.responses[1].status = 429
       /\ (~credentials /\ ~notFound /\ ~quota) => req.responses[1].status = 500

C3_Witness ==
  /\ ChatUpstreamFailed
  /\ req.results[1].message = { "not found", "quota" }
  /\ req.responses[1].status = 404

\* An upstream call of an image-analysis request failed.
ImageUpstreamFailed ==
  /\ req.kind = "image"
  /\ Done
  /\ Len(req.results) >= 1
  /\ ~req.results[Len(req.results)].ok

\* C4: an image-analysis request whose upstream call fails is answered with
\* the status of the failure kind: 401 for invalid credentials, 404 for
\* model-not-found, 429 for quota-exceeded, and 500 only for a failure of
\* none of the classified kinds.
C4_ImageStatusByKind ==
  ImageUpstreamFailed =>
    LET m == req.results[Len(req.results)].message
        st == req.responses[1].status
    IN /\ "API key not valid" \in m => st = 401
       /\ m = { "not found" } => st = 404
       /\ m = { "quota" } => st = 429
       /\ st = 500 => m \cap { "API key not valid", "not found", "quota" } = {}

\* The result of upstream call i of the request is a text that is empty or
\* only white space.
BlankResult(i) ==
  /\ i <= Len(req.results)
  /\ req.results[i].ok
  /\ req.results[i].text \in { "", " " }

C6_ModelFieldIsModelUsed ==
  (Done /\ Len(req.responses) >= 1 /\ req.responses[1].shape = "content")
    => \A i \in 1..Len(req.calls) : req.calls[i].model = req.responses[1].model

\* The response is {content, model} or a JSON error object.
StructuredResponse(response) ==
  \/ /\ response.shape = "content"
     /\ response.status = 200
     /\ response.model # None
  \/ /\ response.shape = "error"
     /\ response.status \in { 400, 401, 404, 429, 500, 503 }
     /\ response.error # ""

C7_AtMostOneResponse ==
  /\ Len(req.responses) <= 1
  /\ InFlight => req.responses = <<>>
  /\ Done => /\ Len(req.responses) = 1
             /\ StructuredResponse(req.responses[1])

NonImageUpload ==
  /\ req.kind = "image"
  /\ req.file.present
  /\ req.file.mimetype[1] # "image"

\* C8: an image-analysis request with a file that is not image/* is
\* answered by the upload stage with an error; the route handler, which is
\* the only reader of the vision slot, never runs for it and no upstream
\* call is made.
C8_NonImageRejectedAtUpload ==
  NonImageUpload =>
    /\ req.pc \in { "upload", "done" }
    /\ req.calls = <<>>
    /\ req.modelName = None
    /\ Done => /\ Len(req.responses) = 1
               /\ req.responses[1].status = 400
               /\ req.responses[1].error = "File upload failed"

C8_Witness ==
  /\ NonImageUpload
  /\ Done
  /\ req.responses[1].error = "File upload failed"
  /\ availableModels.vision # None

\* ---------------------------------------------------- analytics properties

RECURSIVE SumDurations(_)
SumDurations(history) ==
  IF history = << >> THEN 0
  ELSE history[1].duration + SumDurations(Tail(history))

\* C9: totalMessages is userMessages + aiMessages after any sequence of
\* tracking operations, resets and reloads.
C9_TotalIsUserPlusAI ==
  conversationStats.totalMessages =
    conversationStats.userMessages + conversationStats.aiMessages

C9_Witness ==
  /\ conversationStats.userMessages >= 1
  /\ conversationStats.aiMessages >= 2
  /\ storage = Stringify(conversationStats)

\* C10: whenever responseTimeHistory is non-empty, avgResponseTime is
\* totalResponseTime divided by the number of samples, and totalResponseTime
\* is the sum of the durations of the samples.
C10_AverageOfHistory ==
  conversationStats.responseTimeHistory # << >> =>
    /\ SameFraction(conversationStats.avgResponseTime,
                    Fraction(conversationStats.totalResponseTime,
                             Len(conversationStats.responseTimeHistory)))
    /\ conversationStats.totalResponseTime =
         SumDurations(conversationStats.responseTimeHistory)

C10_Witness ==
  /\ Len(conversationStats.responseTimeHistory) = 1
  /\ conversationStats.responseTimeHistory[1].duration > 0
  /\ conversationStats.aiMessages = 2
  /\ storage = Stringify(conversationStats)

\* ------------------------------------------------- analytics properties, 2

\* After the reply of an exchange has been tracked, in a conversation of
\* strictly alternating trackUserMessage / trackAIResponse calls.
AfterPairs(k) ==
  /\ conversationStats.userMessages = k
  /\ conversationStats.aiMessages = k
  /\ conversationStats.totalMessages = 2 * k
  /\ Len(conversationStats.responseTimeHistory) = k
  /\ \A i \in 1..k : conversationStats.responseTimeHistory[i].duration >= 0

\* Each call counts one message of its own kind.
CountsOneMessage ==
  /\ lastCall'.op = "trackUserMessage" =>
        /\ conversationStats'.userMessages = conversationStats.userMessages + 1
        /\ conversationStats'.aiMessages = conversationStats.aiMessages
  /\ lastCall'.op = "trackAIResponse" =>
        /\ conversationStats'.aiMessages = conversationStats.aiMessages + 1
        /\ conversationStats'.userMessages = conversationStats.userMessages

\* C11: from zeroed stats, after k >= 1 strictly alternating pairs of
\* trackUserMessage then trackAIResponse, userMessages = k, aiMessages = k,
\* totalMessages = 2k and responseTimeHistory has exactly k entries, each
\* of non-negative duration.  k is the number of replies tracked: every
\* call counts exactly one message.
C11_AlternatingPairs ==
  /\ [](lastCall.op = "trackAIResponse" =>
          /\ conversationStats.aiMessages >= 1
          /\ AfterPairs(conversationStats.aiMessages))
  /\ [][(\E length \in MessageLengths :
            SendTextMessage(length) \/ ReceiveReply(length))
          => CountsOneMessage]_vars

\* Two pairs have been tracked, the second reply after a wait.
C11_Witness ==
  /\ lastCall.op = "trackAIResponse"
  /\ AfterPairs(2)
  /\ conversationStats.responseTimeHistory[2].duration > 0

TrackAIResponseRuns == \E length \in MessageLengths : TrackAIResponse(length)

\* C12: trackAIResponse appends one duration sample if lastQuery is set
\* when it is called and none otherwise, keeps the earlier samples, always
\* leaves lastQuery cleared and always counts the message in aiMessages and
\* totalMessages; and only trackUserMessage sets lastQuery again, so a
\* second trackAIResponse with no trackUserMessage in between appends none.
C12_SampleIffQueryPending ==
  [][/\ TrackAIResponseRuns =>
          LET history == conversationStats.responseTimeHistory
              pending == conversationStats.lastQuery # 0
          IN /\ Len(conversationStats'.responseTimeHistory)
                  = Len(history) + (IF pending THEN 1 ELSE 0)
             /\ SubSeq(conversationStats'.responseTimeHistory,
                       1, Len(history)) = history
             /\ conversationStats'.lastQuery = 0
             /\ conversationStats'.aiMessages
                  = conversationStats.aiMessages + 1
             /\ conversationStats'.totalMessages
                  = conversationStats.totalMessages + 1
     /\ (conversationStats.lastQuery = 0 /\ conversationStats'.lastQuery # 0)
          => lastCall'.op = "trackUserMessage"
    ]_vars

\* A second trackAIResponse in a row has been counted without a sample.
C12_Witness ==
  /\ lastCall.op = "trackAIResponse"
  /\ conversationStats.userMessages = 1
  /\ conversationStats.aiMessages = 2
  /\ conversationStats.totalMessages = 3
  /\ Len(conversationStats.responseTimeHistory) = 1

\* The value on the line of the report's summary that carries the label.
SummaryValue(report, label) ==
  LET i == CHOOSE i \in 1..Len(report.summary) :
             report.summary[i].label = label
  IN report.summary[i].value

\* C13: the "Total Messages" line of an exported report carries
\* userMessages + aiMessages of the stats at the time of the export, and
\* the export changes no field of the stats or of the stored record.
C13_ExportTotalAndNoChange ==
  /\ [](lastCall.kind = "download" =>
          SummaryValue(lastCall.report, "Total Messages")
            = conversationStats.userMessages + conversationStats.aiMessages)
  /\ [][lastCall'.kind = "download" =>
          /\ conversationStats' = conversationStats
          /\ storage' = storage]_vars

\* A report has been exported from stats that hold messages of both kinds
\* and an analysed image.
C13_Witness ==
  /\ lastCall.kind = "download"
  /\ conversationStats.userMessages >= 1
  /\ conversationStats.aiMessages >= 1
  /\ conversationStats.imageCounts = 1
  /\ SummaryValue(lastCall.report, "Total Messages") >= 2

\* ---------------------------------------------------- discovery properties

\* The generation marker of an identifier, newest first, and the
\* identifier without it.
GenerationRank(modelName) ==
  IF Includes(modelName, "2.0") THEN 3
  ELSE IF Includes(modelName, "1.5") THEN 2
  ELSE IF Includes(modelName, "1.0") THEN 1
  ELSE 0

WithoutGeneration(modelName) ==
  LET IsOther(token) == token \notin { "1.0", "1.5", "2.0" }
  IN SelectSeq(modelName, IsOther)

Listed == availableModels.allModels
ListingClassified == dpc = "done" /\ idx = 0

\* C14: of two identifiers that differ only in generation marker, the one
\* with the newer marker ("2.0" over "1.5" over "1.0" over none) scores
\* strictly higher with the scorer of either server file, is the better
\* model, and the older one is not selected as text model from a list that
\* holds both.
C14_NewerGenerationScoresHigher ==
  ListingClassified =>
    \A i, j \in 1..Len(Listed) :
      (/\ WithoutGeneration(Listed[i]) = WithoutGeneration(Listed[j])
       /\ GenerationRank(Listed[i]) > GenerationRank(Listed[j]))
      => /\ getModelScore(Listed[i]) > getModelScore(Listed[j])
         /\ getModelScoreOther(Listed[i]) > getModelScoreOther(Listed[j])
         /\ isBetterModel(Listed[i], Listed[j])
         /\ availableModels.text # Listed[j]

\* A list with the same name in generations 1.5 and 2.0 was classified.
C14_Witness ==
  /\ ListingClassified
  /\ Listed = << <<"gemini", "1.5", "pro">>, <<"gemini", "2.0", "pro">> >>
  /\ availableModels.text = <<"gemini", "2.0", "pro">>

\* C15: of two identifiers of the same generation marker, one containing
\* "vision" and the other not, the vision one scores strictly higher
\* whatever the tiers (none, flash, pro, ultra) of the two, with the scorer
\* of either server file.
C15_VisionScoresHigher ==
  ListingClassified =>
    \A i, j \in 1..Len(Listed) :
      (/\ GenerationRank(Listed[i]) = GenerationRank(Listed[j])
       /\ Includes(Listed[i], "vision")
       /\ ~Includes(Listed[j], "vision"))
      => /\ getModelScore(Listed[i]) > getModelScore(Listed[j])
         /\ getModelScoreOther(Listed[i]) > getModelScoreOther(Listed[j])

ProbingOver == dpc = "done" /\ idx > 0

\* The entry of a non-empty list that was recorded first among those of
\* maximal score.
FirstOfMaximalScore(list) ==
  LET i == CHOOSE i \in 1..Len(list) :
             /\ \A j \in 1..Len(list) :
                  getModelScore(list[j]) <= getModelScore(list[i])
             /\ \A j \in 1..(i - 1) :
                  getModelScore(list[j]) < getModelScore(list[i])
  IN list[i]

\* C16: isBetterModel(a, a) is false for every discovered a; a selected
\* text or vision model is only ever replaced by one of strictly higher
\* score; and when the fallback probing is over the text model is the
\* candidate probed first among the available ones of maximal score.
C16_TiesKeepIncumbent ==
  /\ [](\A i \in 1..Len(Listed) : ~isBetterModel(Listed[i], Listed[i]))
  /\ [][/\ ((/\ availableModels.text # None
               /\ availableModels'.text # availableModels.text)
              => getModelScore(availableModels'.text)
                   > getModelScore(availableModels.text))
         /\ ((/\ availableModels.vision # None
               /\ availableModels'.vision # availableModels.vision)
              => getModelScore(availableModels'.vision)
                   > getModelScore(availableModels.vision))
        ]_vars
  /\ []((ProbingOver /\ Len(Listed) > 0)
          => availableModels.text = FirstOfMaximalScore(Listed))

\* Two candidates of equal score answered their probes; the first stayed.
C16_Witness ==
  /\ ProbingOver
  /\ Listed = << <<"gemini", "1.5", "pro", "vision">>,
                 <<"gemini", "2.0", "pro">> >>
  /\ getModelScore(Listed[1]) = getModelScore(Listed[2])
  /\ availableModels.text = <<"gemini", "1.5", "pro", "vision">>
  /\ availableModels.vision = <<"gemini", "1.5", "pro", "vision">>

\* C17: classification of a listed set of names selects as vision model
\* a name containing "vision" of the highest score among those (none when
\* there is no such name) and as text model a name of the highest score of
\* the list; ["gemini-1.5-pro", "gemini-2.0-flash"] gives the text model
\* "gemini-2.0-flash", and "gemini-pro-vision" listed with
\* "gemini-2.0-flash", in either order, gives the vision model
\* "gemini-pro-vision" and the text model "gemini-2.0-flash".
C17_ListingClassification ==
  ListingClassified =>
    LET visionNames == { i \in 1..Len(Listed) : Includes(Listed[i], "vision") }
        flash20 == <<"gemini", "2.0", "flash">>
        pro15 == <<"gemini", "1.5", "pro">>
        proVision == <<"gemini", "pro", "vision">>
    IN /\ IF visionNames = {}
          THEN availableModels.vision = None
          ELSE \E i \in visionNames :
                 /\ availableModels.vision = Listed[i]
                 /\ \A j \in visionNames :
                      getModelScore(Listed[j]) <= getModelScore(Listed[i])
       /\ \E i \in 1..Len(Listed) :
            /\ availableModels.text = Listed[i]
            /\ \A j \in 1..Len(Listed) :
                 getModelScore(Listed[j]) <= getModelScore(Listed[i])
       /\ (Listed = <<pro15, flash20>>) => availableModels.text = flash20
       /\ (Listed \in { <<proVision, flash20>>, <<flash20, proVision>> })
            => /\ availableModels.vision = proVision
               /\ availableModels.text = flash20

\* The list ["gemini-2.0-flash", "gemini-pro-vision"] was classified.
C17_Witness ==
  /\ ListingClassified
  /\ Listed = << <<"gemini", "2.0", "flash">>, <<"gemini", "pro", "vision">> >>
  /\ availableModels.vision = <<"gemini", "pro", "vision">>
  /\ availableModels.text = <<"gemini", "2.0", "flash">>

\* C18: discoverAvailableModels always terminates, with a boolean: a
\* failed listing call is followed by the probe of the first candidate, a
\* probe of any candidate but the last by the next step of the loop, so
\* that when probing is over every candidate has been tried; and when no
\* model at all was discovered the result is false.
C18_DiscoveryReturnsBoolean ==
  /\ <>(dpc = "done")
  /\ [](IF dpc = "done"
        THEN discoverResult \in { "true", "false" }
        ELSE discoverResult = "pending")
  /\ [][/\ (dpc = "listing" =>
               (\/ dpc' = "done" /\ Len(availableModels'.allModels) > 0
                \/ dpc' = "probe" /\ idx' = 1))
         /\ ((dpc = "probe" /\ idx < Len(allPotentialModels)) =>
               (\/ dpc' = "probe" /\ idx' = idx + 1
                \/ dpc' = "mmprobe" /\ idx' = idx))
        ]_vars
  /\ [](ProbingOver => idx = Len(allPotentialModels))
  /\ []((dpc = "done" /\ Listed = <<>>) =>
          /\ discoverResult = "false"
          /\ availableModels.text = None
          /\ availableModels.vision = None)

\* The listing call and every probe failed: discovery returned false.
C18_Witness ==
  /\ ProbingOver
  /\ idx = Len(allPotentialModels)
  /\ Listed = <<>>
  /\ discoverResult = "false"

\* ------------------------------------------------- analytics properties, 3

\* C19: after each of trackUserMessage, trackAIResponse, trackImageUpload
\* and resetStats the stored record is the serialization of the stats in
\* memory, and a reload between operations leaves the stats in memory as
\* they were.
C19_StoredRecordMirrorsStats ==
  /\ [](lastCall.op \in { "trackUserMessage", "trackAIResponse",
                          "trackImageUpload", "resetStats" }
          => /\ storage.kind = "json"
             /\ storage.value = conversationStats)
  /\ [][Reload => conversationStats' = conversationStats]_vars

\* A reload has restored stats that hold a message and an image.
C19_Witness ==
  /\ lastCall.op = "init"
  /\ conversationStats.userMessages >= 1
  /\ conversationStats.imageCounts = 1
  /\ storage.kind = "json"
  /\ storage.value = conversationStats

StoredWellFormed(text) == text.kind = "json" /\ IsStats(text.value)

\* C20: a page load that finds no stored value, a text that does not
\* parse, or one that parses to something that is no stats record leaves
\* the zeroed defaults in memory, and no later operation throws.
C20_DefaultsOnAbsentOrCorrupt ==
  /\ [][(Reload /\ ~StoredWellFormed(storage))
          => conversationStats' = DefaultStats]_vars
  /\ [](lastCall.kind # "threw")

\* ------------------------------------------------- discovery properties, 2

\* A discovered model qualifies for the vision slot if its name contains
\* "vision" or its multimodal probe succeeded.
QualifiesAsVision(modelName) ==
  Includes(modelName, "vision") \/ modelName \in visionLog

\* C21: when the fallback probing is over, the text model is the first
\* probed of the best-scoring discovered models, and the vision model is
\* the first probed of the best-scoring discovered models that qualify for
\* the vision slot (none if no discovered model qualifies).
C21_SelectionsAreBestOfDiscovered ==
  ProbingOver =>
    LET qualified == SelectSeq(Listed, QualifiesAsVision)
    IN /\ Len(Listed) > 0 =>
            availableModels.text = FirstOfMaximalScore(Listed)
       /\ availableModels.vision =
            IF Len(qualified) > 0 THEN FirstOfMaximalScore(qualified)
            ELSE None

C23_SameModelInBothSlots ==
  /\ []((dpc = "done" /\ Len(Listed) > 0
          /\ Includes(FirstOfMaximalScore(Listed), "vision"))
          => /\ availableModels.text = FirstOfMaximalScore(Listed)
             /\ availableModels.vision = FirstOfMaximalScore(Listed))
  /\ [][(availableModels.text # None
          /\ availableModels.text = availableModels.vision)
         => /\ (availableModels'.text = availableModels.text
                 \/ getModelScore(availableModels'.text)
                      > getModelScore(availableModels.text))
            /\ (availableModels'.vision = availableModels.vision
                 \/ getModelScore(availableModels'.vision)
                      > getModelScore(availableModels.vision))
        ]_vars

\* Probing ended with "gemini-2.0-pro-vision" as text and as vision model,
\* a second model having been discovered.
C23_Witness ==
  /\ ProbingOver
  /\ Len(Listed) = 2
  /\ availableModels.text = <<"gemini", "2.0", "pro", "vision">>
  /\ availableModels.vision = <<"gemini", "2.0", "pro", "vision">>

\* C24: request handlers never write AvailableModels: every step that changes
\* the selections is a step of discovery and leaves the request alone, and
\* every step of a request leaves the selections and the position of
\* discovery alone.  A request handled while discovery is still running
\* reads the slot as it is at that moment, which may differ from the slot's
\* value when discovery finishes (the witness).
C24_HandlersNeverWriteAvailableModels ==
  [][/\ (availableModels' # availableModels
           => (req' = req /\ dpc \in { "listing", "probe", "mmprobe" }))
     /\ (req' # req
           => (availableModels' = availableModels /\ dpc' = dpc /\ idx' = idx
               /\ discoverResult' = discoverResult))]_vars

\* A chat request without a requested model was answered from a text slot
\* that a later probe upgraded before discovery finished.
C24_Witness ==
  /\ dpc = "done"
  /\ req.kind = "chat"
  /\ req.requestedModel = None
  /\ Done
  /\ Len(req.calls) = 1
  /\ req.modelName # None
  /\ availableModels.text # None
  /\ req.modelName # availableModels.text

\* C25: when the tracking order is user1, user2, ai1, ai2, the second user
\* message overwrites the pending-query timestamp with its own time, the
\* first reply appends the only duration sample, measured from the second
\* user message, and clears the timestamp, the second reply appends none,
\* and the counters count all four events.
C25_OverlapKeepsOneSample ==
  /\ [](conversationStats.aiMessages = 0
          => conversationStats.responseTimeHistory = <<>>)
  /\ [][/\ (conversationStats'.userMessages = conversationStats.userMessages + 1
              => conversationStats'.lastQuery = now)
        /\ ((conversationStats.aiMessages = 0
              /\ conversationStats'.aiMessages = 1)
              => (/\ conversationStats'.responseTimeHistory =
                       << [time |-> now,
                           duration |-> now - conversationStats.lastQuery] >>
                  /\ conversationStats'.lastQuery = 0))
        /\ ((conversationStats.aiMessages = 1
              /\ conversationStats'.aiMessages = 2)
              => (/\ conversationStats'.responseTimeHistory =
                       conversationStats.responseTimeHistory
                  /\ conversationStats'.totalResponseTime =
                       conversationStats.totalResponseTime))]_vars
  /\ [](conversationStats.aiMessages = 2
          => (/\ Len(conversationStats.responseTimeHistory) = 1
              /\ conversationStats.userMessages = 2
              /\ conversationStats.totalMessages = 4))

\* user1 at tick 1, user2 at tick 2, ai1 and ai2 at tick 3: the one sample
\* lasts one tick, the time from user2 to ai1.
C25_Witness ==
  /\ conversationStats.userMessages = 2
  /\ conversationStats.aiMessages = 2
  /\ conversationStats.totalMessages = 4
  /\ conversationStats.responseTimeHistory = << [time |-> 3, duration |-> 1] >>
  /\ conversationStats.lastQuery = 0
  /\ lastCall = Returned("trackAIResponse")

\* C26: for every chat request that reached the upstream call with n >= 1
\* messages, the last entry is a user message whose content is the prompt
\* sent upstream, and the history sent upstream is the first n-1 entries in
\* their order, with role assistant translated to model and every other
\* role to user.
C26_LastUserMessageIsPrompt ==
  (req.kind = "chat" /\ Len(req.calls) >= 1 /\ Len(req.messages.items) >= 1)
    => LET items == req.messages.items
           n == Len(items)
           call == req.calls[1]
       IN /\ items[n].role = "user"
          /\ call.prompt = items[n].content
          /\ Len(call.history) = n - 1
          /\ \A i \in 1..(n - 1) :
               /\ call.history[i].text = items[i].content
               /\ call.history[i].role =
                    (IF items[i].role = "assistant" THEN "model" ELSE "user")

\* The least number of tokens of four characters that hold length characters.
QuarterCeiling(length) ==
  CHOOSE k \in 0..length : 4 * k >= length /\ \A j \in 0..(k - 1) : 4 * j < length

\* C27: trackUserMessage(text) adds ceil(length(text) / 4) to tokenUsage.input
\* and to tokenUsage.total and leaves tokenUsage.output unchanged,
\* trackAIResponse(text) adds ceil(length(text) / 4) to tokenUsage.output and
\* to tokenUsage.total and leaves tokenUsage.input unchanged, and
\* tokenUsage.total = tokenUsage.input + tokenUsage.output in every state.
C27_TokenEstimates ==
  /\ [](conversationStats.tokenUsage.total =
          conversationStats.tokenUsage.input
            + conversationStats.tokenUsage.output)
  /\ [][/\ (conversationStats'.userMessages = conversationStats.userMessages + 1
             => LET tokens == QuarterCeiling(
                                conversationStats'.characterCounts.user
                                  - conversationStats.characterCounts.user)
                IN /\ conversationStats'.tokenUsage.input =
                        conversationStats.tokenUsage.input + tokens
                   /\ conversationStats'.tokenUsage.total =
                        conversationStats.tokenUsage.total + tokens
                   /\ conversationStats'.tokenUsage.output =
                        conversationStats.tokenUsage.output)
        /\ (conversationStats'.aiMessages = conversationStats.aiMessages + 1
             => LET tokens == QuarterCeiling(
                                conversationStats'.characterCounts.ai
                                  - conversationStats.characterCounts.ai)
                IN /\ conversationStats'.tokenUsage.output =
                        conversationStats.tokenUsage.output + tokens
                   /\ conversationStats'.tokenUsage.total =
                        conversationStats.tokenUsage.total + tokens
                   /\ conversationStats'.tokenUsage.input =
                        conversationStats.tokenUsage.input)]_vars

\* A user message of five characters (two tokens) and an AI response of one
\* character (one token) have been tracked.
C27_Witness ==
  /\ conversationStats.userMessages = 1
  /\ conversationStats.aiMessages = 1
  /\ conversationStats.characterCounts.user = 5
  /\ conversationStats.characterCounts.ai = 1
  /\ conversationStats.tokenUsage = [input |-> 2, output |-> 1, total |-> 3]

IsListed(modelName) == \E i \in 1..Len(Listed) : Listed[i] = modelName

\* C28: at every point during and after discovery, between two probes of the
\* fallback loop included, a text slot that is not none and a vision slot
\* that is not none each hold an identifier that is a member of allModels.
C28_SelectionsAreListed ==
  /\ (availableModels.text # None => IsListed(availableModels.text))
  /\ (availableModels.vision # None => IsListed(availableModels.vision))

\* Between two probes of the fallback loop, with both slots filled.
C28_Witness ==
  /\ dpc = "probe"
  /\ idx > 1
  /\ availableModels.text # None
  /\ availableModels.vision # None
  /\ availableModels.text # availableModels.vision
  /\ Len(Listed) = 2

Occurrences(list, modelName) ==
  Cardinality({ i \in 1..Len(list) : list[i] = modelName })

\* C29: after fallback probing allModels contains every available candidate
\* identifier exactly once, and no candidate is liveness-probed more than
\* once in a discovery run: the candidate under probe was not a candidate of
\* an earlier iteration.
C29_EachCandidateOnce ==
  /\ (ProbingOver => \A modelName \in served : Occurrences(Listed, modelName) = 1)
  /\ (dpc = "probe"
        => \A j \in 1..(idx - 1) :
             allPotentialModels[j] # allPotentialModels[idx])

\* C30: the pending-query timestamp does not survive a page reload: a
\* trackAIResponse that is the first tracking call after a reload appends
\* no duration sample, whatever was tracked before the reload.
C30_PendingQueryLostOnReload ==
  [][(/\ lastCall.op = "init"
      /\ conversationStats'.aiMessages = conversationStats.aiMessages + 1)
       => conversationStats'.responseTimeHistory =
            conversationStats.responseTimeHistory]_vars

====
